---- MODULE Spec2Model ----
(***************************************************************************)
(* BookFrame Cloudflare Worker API (src/api/v1/index.ts): the edition      *)
(* dedup/upsert, the filtered discovery query, and the search with its     *)
(* external fallback ingest, as a state machine over the D1 tables.        *)
(*                                                                         *)
(* Conventions.  Every SQL / JSON value is a string: NULL (and a missing   *)
(* JSON property) is Null, numbers are their decimal text, the SQL         *)
(* integers 1 and 0 a boolean is stored as are "1" and "0".  A table is    *)
(* the sequence of its rows in rowid order.  crypto.randomUUID() is the    *)
(* next unused value of a counter.  Time is in seconds since the epoch.    *)
(* A datastore statement may fail only where stated (a primary-key         *)
(* conflict, a LIMIT that is not an integer, and any statement of the      *)
(* fallback ingest).                                                       *)
(***************************************************************************)
EXTENDS Integers, Sequences, FiniteSets, TLC

VARIABLES
    authors,           \* table authors(id, name)
    works,             \* table works(id, title, author, description, cover_url, updated_at)
    work_authors,      \* table work_authors(work_id, author_id)
    editions,          \* table editions(id, work_id, type, format, isbn, asin, ...)
    external_ingests,  \* table external_ingests(id, query, source, status, work_id, created_at)
    uuidCount,         \* number of crypto.randomUUID() values handed out so far
    now,               \* the clock read by Date.now() / new Date()
    schema,            \* the constraints the deployed tables carry
    req,               \* the request handled last
    resp,              \* the response given to it
    prev               \* the response to the request before it, when req repeats that request

vars == <<authors, works, work_authors, editions, external_ingests, uuidCount, now, schema,
          req, resp, prev>>

tables == <<authors, works, work_authors, editions, external_ingests>>

----------------------------------------------------------------------------
(* Bounds of the model *)

\* most rows the editions table is let grow to
MaxEditions == 2

\* most values crypto.randomUUID() is let hand out
MaxUuid == 4

\* most rows the external_ingests table is let grow to
MaxIngests == 1

\* most times the clock is let advance
MaxTicks == 1

----------------------------------------------------------------------------
(* Values *)

Null == "<null>"

\* JS truthiness of a string | null | undefined value: `!v` is ~Truthy(v)
Truthy(v) == v # Null /\ v # ""

\* SQL `a = b`: true only when neither side is NULL
SqlEq(a, b) == a # Null /\ b # Null /\ a = b

\* the n-th value of crypto.randomUUID()
Uuid(n) == "uuid-" \o ToString(n)

\* new Date().toISOString() at clock value t
ToISOString(t) == "T" \o ToString(t)

\* D1 binds a JS boolean as the integer 1 or 0, null as NULL
BindFlag(b) == IF b = "true" THEN "1" ELSE IF b = "false" THEN "0" ELSE b

\* 2025-04-07, the date of the release (src/CHANGELOG.md), in seconds
StartNow == 20185 * 86400

\* the positions of a table
Rows(table) == 1..Len(table)

NoRequest == [route |-> "none"]

NoResponse == [route |-> "none", status |-> 0]

\* what prev becomes when request r arrives: the last response if r repeats the last request
Repeated(r) == IF r = req THEN resp ELSE NoResponse

----------------------------------------------------------------------------
(* Text: JS string and number primitives the handlers use *)

\* the i-th character of s
CharAt(s, i) == SubSeq(s, i, i)

\* s from its i-th character on
From(s, i) == SubSeq(s, i, Len(s))

Digits == {"0", "1", "2", "3", "4", "5", "6", "7", "8", "9"}

IsDigit(c) == c \in Digits

\* the characters \s matches, among those used
IsSpace(c) == c = " "

\* the value of a decimal digit
DigitValue(c) == CHOOSE d \in 0..9 : ToString(d) = c

\* the value of a string of decimal digits
DigitsValue(s) ==
    LET RECURSIVE Value(_)
        Value(i) == IF i = 0 THEN 0 ELSE 10 * Value(i - 1) + DigitValue(CharAt(s, i))
    IN  Value(Len(s))

\* the length of the longest prefix of s made of digits
DigitPrefixLen(s) ==
    LET RECURSIVE Run(_)
        Run(i) == IF i <= Len(s) /\ IsDigit(CharAt(s, i)) THEN Run(i + 1) ELSE i - 1
    IN  Run(1)

\* the position of the first character of s that is not a blank, Len(s) + 1 if none
FirstNonSpace(s) ==
    LET RECURSIVE Skip(_)
        Skip(i) == IF i <= Len(s) /\ IsSpace(CharAt(s, i)) THEN Skip(i + 1) ELSE i
    IN  Skip(1)

\* the position of the last character of s that is not a blank, 0 if none
LastNonSpace(s) ==
    LET RECURSIVE Back(_)
        Back(i) == IF i >= 1 /\ IsSpace(CharAt(s, i)) THEN Back(i - 1) ELSE i
    IN  Back(Len(s))

\* String.prototype.trim
Trim(s) == SubSeq(s, FirstNonSpace(s), LastNonSpace(s))

UpperCase == "ABCDEFGHIJKLMNOPQRSTUVWXYZ"

LowerCase == "abcdefghijklmnopqrstuvwxyz"

\* the lower-case form of one character
LowerChar(c) ==
    IF \E i \in 1..Len(UpperCase) : CharAt(UpperCase, i) = c
    THEN CharAt(LowerCase, CHOOSE i \in 1..Len(UpperCase) : CharAt(UpperCase, i) = c)
    ELSE c

\* String.prototype.toLowerCase, and SQL LOWER()
ToLowerCase(s) ==
    LET RECURSIVE Lower(_)
        Lower(i) == IF i > Len(s) THEN "" ELSE LowerChar(CharAt(s, i)) \o Lower(i + 1)
    IN  Lower(1)

\* a JS number: NaN, or the integer val
NaN == [nan |-> TRUE, val |-> 0]

Num(n) == [nan |-> FALSE, val |-> n]

\* the number a string of the form [+-]?digits* reads as, NaN when no digit follows
SignedDigits(s) ==
    LET neg == s # "" /\ CharAt(s, 1) = "-"
        signed == s # "" /\ CharAt(s, 1) \in {"-", "+"}
        body == IF signed THEN From(s, 2) ELSE s
        n == DigitPrefixLen(body)
    IN  IF n = 0 THEN NaN
        ELSE Num(IF neg THEN 0 - DigitsValue(SubSeq(body, 1, n)) ELSE DigitsValue(SubSeq(body, 1, n)))

\* parseInt(s): leading blanks skipped, an optional sign, then the longest run of digits
ParseInt(s) == SignedDigits(From(s, FirstNonSpace(s)))

\* Number(s) on the strings used here: blank is 0, an integer literal is its value,
\* anything else is NaN
ToNumber(s) ==
    LET t == Trim(s)
        signed == t # "" /\ CharAt(t, 1) \in {"-", "+"}
        body == IF signed THEN From(t, 2) ELSE t
    IN  IF t = "" THEN Num(0)
        ELSE IF body # "" /\ DigitPrefixLen(body) = Len(body) THEN SignedDigits(t)
        ELSE NaN

\* String(n).padStart(2, '0')
PadStart2(n) == LET t == ToString(n) IN IF Len(t) < 2 THEN "0" \o t ELSE t

\* JS a % b for b > 0: the remainder has the sign of a
JsRem(a, b) == IF a >= 0 THEN a % b ELSE 0 - ((0 - a) % b)

\* s.split(',').map(t => t.trim())
SplitTrim(s) ==
    LET RECURSIVE Split(_, _)
        \* the pieces of s from position start on, the commas before position i passed
        Split(start, i) ==
            IF i > Len(s) THEN <<Trim(SubSeq(s, start, Len(s)))>>
            ELSE IF CharAt(s, i) = "," THEN <<Trim(SubSeq(s, start, i - 1))>> \o Split(i + 1, i + 1)
            ELSE Split(start, i + 1)
    IN  Split(1, 1)

----------------------------------------------------------------------------
(* Normalization of an editions row *)

\* runtime.match(/\d{1,2}:\d{2}:\d{2}/): the pattern occurs somewhere in the string
MatchesClock(s) ==
    \E i \in 1..Len(s) : \E h \in {1, 2} :
        /\ i + h + 5 <= Len(s)
        /\ \A k \in 0..(h - 1) : IsDigit(CharAt(s, i + k))
        /\ CharAt(s, i + h) = ":"
        /\ IsDigit(CharAt(s, i + h + 1)) /\ IsDigit(CharAt(s, i + h + 2))
        /\ CharAt(s, i + h + 3) = ":"
        /\ IsDigit(CharAt(s, i + h + 4)) /\ IsDigit(CharAt(s, i + h + 5))

\* normalizeRuntime with the minutes not reduced modulo the hour
normalizeRuntimeWholeMinutes(runtime) ==
    IF ~Truthy(runtime) THEN Null
    ELSE IF MatchesClock(runtime) THEN runtime
    ELSE LET seconds == ParseInt(runtime)
         IN  IF ~seconds.nan
             THEN PadStart2(seconds.val \div 3600) \o ":" \o PadStart2(seconds.val \div 60)
                    \o ":" \o PadStart2(JsRem(seconds.val, 60))
             ELSE runtime

\* function normalizeRuntime
normalizeRuntime(runtime) ==
    IF ~Truthy(runtime) THEN Null
    ELSE IF MatchesClock(runtime) THEN runtime
    ELSE LET seconds == ParseInt(runtime)
         IN  IF ~seconds.nan
             THEN LET h == seconds.val \div 3600
                      m == JsRem(seconds.val, 3600) \div 60
                      sec == JsRem(seconds.val, 60)
                  IN  PadStart2(h) \o ":" \o PadStart2(m) \o ":" \o PadStart2(sec)
             ELSE runtime

\* runtime.match(/^(\d{1,2}):(\d{2}):(\d{2})$/): the whole string has the pattern
MatchesClockAnchored(s) ==
    \E h \in {1, 2} :
        /\ Len(s) = h + 6
        /\ \A k \in 1..h : IsDigit(CharAt(s, k))
        /\ CharAt(s, h + 1) = ":"
        /\ IsDigit(CharAt(s, h + 2)) /\ IsDigit(CharAt(s, h + 3))
        /\ CharAt(s, h + 4) = ":"
        /\ IsDigit(CharAt(s, h + 5)) /\ IsDigit(CharAt(s, h + 6))

\* function normalizeRuntime of the other copy of the worker (src/unnamed/part_008):
\* the pattern is anchored and the hour of a matching string is padded
normalizeRuntime_part_008(runtime) ==
    IF ~Truthy(runtime) THEN Null
    ELSE IF MatchesClockAnchored(runtime)
         THEN IF Len(runtime) = 7 THEN "0" \o runtime ELSE runtime
    ELSE LET seconds == ParseInt(runtime)
         IN  IF ~seconds.nan
             THEN LET h == seconds.val \div 3600
                      m == JsRem(seconds.val, 3600) \div 60
                      sec == JsRem(seconds.val, 60)
                  IN  PadStart2(h) \o ":" \o PadStart2(m) \o ":" \o PadStart2(sec)
             ELSE runtime

\* !!v of a stored integer flag: 1 is true, 0 and NULL are false
FlagToBoolean(v) == IF v \in {Null, "0", ""} THEN "false" ELSE "true"

\* v ? Number(v) : null of a stored number
NumberOrNull(v) == IF v \in {Null, "0", ""} THEN Null ELSE v

\* v ? v.split(',').map(trim) : []
ListOf(v) == IF ~Truthy(v) THEN <<>> ELSE SplitTrim(v)

\* function normalizeEdition
normalizeEdition(record) ==
    [record EXCEPT
        !.abridged = FlagToBoolean(record.abridged),
        !.explicit = FlagToBoolean(record.explicit),
        !.page_count = NumberOrNull(record.page_count),
        !.series_position = NumberOrNull(record.series_position),
        !.genres = ListOf(record.genres),
        !.tags = ListOf(record.tags),
        !.runtime = normalizeRuntime(record.runtime)]

----------------------------------------------------------------------------
(* POST /editions *)

\* the descriptive attributes of a CreateEditionRequest, all unset
NoAttrs ==
    [narrator |-> Null, abridged |-> Null, page_count |-> Null, runtime |-> Null,
     release_date |-> Null, language |-> Null, publisher |-> Null,
     series_name |-> Null, series_position |-> Null, explicit |-> Null,
     genres |-> Null, tags |-> Null]

\* the descriptive attributes of an audiobook edition
AudioAttrs ==
    [narrator |-> "rc bray", abridged |-> "false", page_count |-> Null, runtime |-> "5025",
     release_date |-> "2013-03-22", language |-> "en", publisher |-> "podium",
     series_name |-> Null, series_position |-> Null, explicit |-> "true",
     genres |-> "scifi, space", tags |-> "mars"]

\* a CreateEditionRequest body
EditionPayload(id, work_id, type, format, isbn, asin, attrs) ==
    [id |-> id, work_id |-> work_id, type |-> type, format |-> format,
     isbn |-> isbn, asin |-> asin, attrs |-> attrs]

\* the request bodies POST /editions is driven with
EditionPayloads ==
    \* every combination of identifiers, absent ones included
    { EditionPayload(Null, "w1", "print", "hardcover", i, a, NoAttrs) :
        i \in {Null, "", "isbn1", "isbn2"}, a \in {Null, "", "asin1", "asin2"} }
    \* a caller-supplied id, a different work and attributes
    \cup { EditionPayload("e1", "w1", "print", "hardcover", i, Null, NoAttrs) :
             i \in {"isbn1", "isbn2"} }
    \cup { EditionPayload(Null, "w2", "audiobook", "audible", "isbn1", a, AudioAttrs) :
             a \in {Null, "asin1"} }
    \* a required field missing
    \cup { EditionPayload(Null, Null, "print", "hardcover", "isbn1", Null, NoAttrs),
           EditionPayload(Null, "w1", Null, "hardcover", "isbn1", Null, NoAttrs),
           EditionPayload(Null, "w1", "print", "", "isbn1", "asin1", NoAttrs) }

\* the validation with the format check left out
MissingRequiredFieldsNoFormat(p) ==
    \/ ~Truthy(p.work_id)
    \/ ~Truthy(p.type)
    \/ (~Truthy(p.isbn) /\ ~Truthy(p.asin))

\* `!work_id || !type || !format || (!isbn && !asin)`
MissingRequiredFields(p) ==
    \/ ~Truthy(p.work_id)
    \/ ~Truthy(p.type)
    \/ ~Truthy(p.format)
    \/ (~Truthy(p.isbn) /\ ~Truthy(p.asin))

\* the dedup predicate with the isbn term left out
DedupWhereAsinOnly(row, isbn, asin) ==
    SqlEq(row.asin, asin) /\ asin # Null

\* WHERE (isbn = ? AND ? IS NOT NULL) OR (asin = ? AND ? IS NOT NULL)
DedupWhere(row, isbn, asin) ==
    \/ (SqlEq(row.isbn, isbn) /\ isbn # Null)
    \/ (SqlEq(row.asin, asin) /\ asin # Null)

\* the positions of the rows the dedup SELECT returns
ExistingEditions(table, isbn, asin) ==
    { i \in Rows(table) : DedupWhere(table[i], isbn, asin) }

\* the row UPDATE editions SET ... WHERE id = ? leaves, and INSERT INTO editions writes
EditionRow(id, p, ts) ==
    [id |-> id, work_id |-> p.work_id, type |-> p.type, format |-> p.format,
     isbn |-> p.isbn, asin |-> p.asin,
     narrator |-> p.attrs.narrator, abridged |-> BindFlag(p.attrs.abridged),
     page_count |-> p.attrs.page_count, runtime |-> p.attrs.runtime,
     release_date |-> p.attrs.release_date, language |-> p.attrs.language,
     publisher |-> p.attrs.publisher, series_name |-> p.attrs.series_name,
     series_position |-> p.attrs.series_position, explicit |-> BindFlag(p.attrs.explicit),
     genres |-> p.attrs.genres, tags |-> p.attrs.tags, updated_at |-> ts,
     external_id |-> Null, cover_url |-> Null]

\* an UPDATE that leaves the isbn column out of its SET list
UpdateEditionKeepIsbn(table, id, p, ts) ==
    [ i \in Rows(table) |->
        IF table[i].id = id
        THEN [EditionRow(id, p, ts) EXCEPT !.isbn = table[i].isbn,
                                           !.external_id = table[i].external_id,
                                           !.cover_url = table[i].cover_url]
        ELSE table[i] ]

\* UPDATE editions SET ... WHERE id = ?: the columns named are rewritten in every row
\* with that id, the others are kept
UpdateEdition(table, id, p, ts) ==
    [ i \in Rows(table) |->
        IF table[i].id = id
        THEN [EditionRow(id, p, ts) EXCEPT !.external_id = table[i].external_id,
                                           !.cover_url = table[i].cover_url]
        ELSE table[i] ]

\* the handler of POST /editions
PostEditions(p) ==
    /\ req' = [route |-> "POST /editions", payload |-> p]
    /\ prev' = Repeated([route |-> "POST /editions", payload |-> p])
    /\ UNCHANGED <<authors, works, work_authors, external_ingests, now, schema>>
    /\ IF MissingRequiredFields(p)
       THEN /\ resp' = [route |-> "POST /editions", status |-> 400]
            /\ UNCHANGED <<editions, uuidCount>>
       ELSE LET ts == ToISOString(now)
                existing == ExistingEditions(editions, p.isbn, p.asin)
            IN IF existing # {}
               THEN \* .first(): one of the rows the SELECT returns, in no stated order
                    \E i \in existing :
                       /\ editions' = UpdateEdition(editions, editions[i].id, p, ts)
                       /\ resp' = [route |-> "POST /editions", status |-> 200,
                                   result |-> "updated", id |-> editions[i].id]
                       /\ UNCHANGED uuidCount
               ELSE /\ Len(editions) < MaxEditions
                    /\ Truthy(p.id) \/ uuidCount < MaxUuid
                    /\ LET newId == IF Truthy(p.id) THEN p.id ELSE Uuid(uuidCount + 1)
                       IN /\ uuidCount' = IF Truthy(p.id) THEN uuidCount ELSE uuidCount + 1
                          /\ IF \E i \in Rows(editions) : editions[i].id = newId
                             THEN \* the id column is the primary key: the INSERT throws
                                  /\ resp' = [route |-> "POST /editions", status |-> 500]
                                  /\ UNCHANGED editions
                             ELSE /\ editions' = Append(editions, EditionRow(newId, p, ts))
                                  /\ resp' = [route |-> "POST /editions", status |-> 201,
                                              result |-> "created", id |-> newId]

----------------------------------------------------------------------------
(* GET /discover/editions *)

\* the query parameters of a discovery request; Null is a parameter not sent
DiscoverParams(ty, fo, la, pu, se, ex, ab, ge, ta, sort, order, limit, offset) ==
    [type |-> ty, format |-> fo, language |-> la, publisher |-> pu,
     series_name |-> se, explicit |-> ex, abridged |-> ab,
     genres |-> ge, tags |-> ta, sort |-> sort, order |-> order,
     limit |-> limit, offset |-> offset]

\* a destructuring default: it applies to a parameter that is not sent
Default(v, d) == IF v = Null THEN d ELSE v

\* SQL LIKE: % is any run of characters, _ any one character, letters match
\* without regard to case
SqlLike(text, pattern) ==
    \E t \in {text}, p \in {pattern} :
    LET RECURSIVE Match(_, _)
        \* t from position i on matches p from position j on
        Match(i, j) ==
            IF j > Len(p) THEN i > Len(t)
            ELSE IF CharAt(p, j) = "%"
                 THEN \E k \in i..(Len(t) + 1) : Match(k, j + 1)
            ELSE /\ i <= Len(t)
                 /\ CharAt(p, j) = "_" \/ LowerChar(CharAt(p, j)) = LowerChar(CharAt(t, i))
                 /\ Match(i + 1, j + 1)
    IN  Match(1, 1)

\* one `where.push(...), binds.push(...)` pair
Filter(col, op, bind) == [col |-> col, op |-> op, bind |-> bind]

\* the where / binds lists, pair by pair in the order they are pushed
WhereBinds(q) ==
    (IF Truthy(q.type) THEN <<Filter("type", "=", q.type)>> ELSE <<>>)
    \o (IF Truthy(q.format) THEN <<Filter("format", "=", q.format)>> ELSE <<>>)
    \o (IF Truthy(q.language) THEN <<Filter("language", "=", q.language)>> ELSE <<>>)
    \o (IF Truthy(q.publisher) THEN <<Filter("publisher", "=", q.publisher)>> ELSE <<>>)
    \o (IF Truthy(q.series_name) THEN <<Filter("series_name", "=", q.series_name)>> ELSE <<>>)
    \o (IF q.explicit # Null
        THEN <<Filter("explicit", "=", IF q.explicit = "true" THEN "1" ELSE "0")>> ELSE <<>>)
    \o (IF q.abridged # Null
        THEN <<Filter("abridged", "=", IF q.abridged = "true" THEN "1" ELSE "0")>> ELSE <<>>)
    \o (IF Truthy(q.genres) THEN <<Filter("genres", "LIKE", "%" \o q.genres \o "%")>> ELSE <<>>)
    \o (IF Truthy(q.tags) THEN <<Filter("tags", "LIKE", "%" \o q.tags \o "%")>> ELSE <<>>)

\* one term of the WHERE clause on a row: true, as SQL needs it to keep the row
TermHolds(row, f) ==
    IF f.op = "=" THEN SqlEq(row[f.col], f.bind)
    ELSE row[f.col] # Null /\ SqlLike(row[f.col], f.bind)

\* the terms joined with OR instead of AND
WhereHoldsAny(row, where) ==
    where = <<>> \/ \E k \in 1..Len(where) : TermHolds(row, where[k])

\* whereClause: `WHERE ${where.join(' AND ')}`, or no clause when the list is empty
WhereHolds(row, where) ==
    \A k \in 1..Len(where) : TermHolds(row, where[k])

\* the sort field passed through unchecked
SortUnchecked(sort) == sort

\* sortSafe
SortSafe(sort) ==
    IF sort \in {"release_date", "runtime", "page_count"} THEN sort ELSE "release_date"

\* orderSafe
OrderSafe(order) == IF ToLowerCase(order) = "asc" THEN "ASC" ELSE "DESC"

\* the characters of the stored texts, in code-point order
Collation == " ,-0123456789:ABCDEFGHIJKLMNOPQRSTUVWXYZ_abcdefghijklmnopqrstuvwxyz"

CodePoint(c) == CHOOSE i \in 1..Len(Collation) : CharAt(Collation, i) = c

\* a <= b for two texts under the BINARY collation
TextLeq(a, b) ==
    LET RECURSIVE Leq(_)
        Leq(i) ==
            IF i > Len(a) THEN TRUE
            ELSE IF i > Len(b) THEN FALSE
            ELSE IF CharAt(a, i) = CharAt(b, i) THEN Leq(i + 1)
            ELSE CodePoint(CharAt(a, i)) < CodePoint(CharAt(b, i))
    IN  Leq(1)

\* a <= b in the ascending order of ORDER BY col: NULL first, numbers by value, texts by collation
SqlLeq(col, a, b) ==
    IF a = Null THEN TRUE
    ELSE IF b = Null THEN FALSE
    ELSE IF col = "page_count" THEN ToNumber(a).val <= ToNumber(b).val
    ELSE TextLeq(a, b)

\* the orders ORDER BY col dir may return the rows at the positions in `hits`
Ordered(table, hits, col, dir) ==
    { o \in [1..Cardinality(hits) -> hits] :
        /\ \A i, j \in DOMAIN o : i # j => o[i] # o[j]
        /\ \A i \in DOMAIN o : \A j \in DOMAIN o :
              i < j => IF dir = "ASC"
                       THEN SqlLeq(col, table[o[i]][col], table[o[j]][col])
                       ELSE SqlLeq(col, table[o[j]][col], table[o[i]][col]) }

\* LIMIT lim OFFSET off of a sequence: a negative limit is no limit, a negative offset is 0
LimitOffset(seq, lim, off) ==
    LET start == IF off < 0 THEN 0 ELSE off
        stop == IF lim < 0 \/ start + lim > Len(seq) THEN Len(seq) ELSE start + lim
    IN  SubSeq(seq, start + 1, stop)

\* the columns of the editions table
EditionColumns ==
    {"id", "work_id", "type", "format", "isbn", "asin", "narrator", "abridged", "page_count",
     "runtime", "release_date", "language", "publisher", "series_name", "series_position",
     "explicit", "genres", "tags", "updated_at", "external_id", "cover_url"}

\* SELECT COUNT(*) FROM editions, without the WHERE clause
CountAll(table, where) == Len(table)

\* SELECT COUNT(*) as total FROM editions ${whereClause}
CountWhere(table, where) ==
    Cardinality({ i \in Rows(table) : WhereHolds(table[i], where) })

\* the handler of GET /discover/editions, answering the request q
Discover(q) ==
    LET sort == Default(q.sort, "release_date")
        order == Default(q.order, "desc")
        limit == ToNumber(Default(q.limit, "25"))
        offset == ToNumber(Default(q.offset, "0"))
        where == WhereBinds(q)
        sortSafe == SortSafe(sort)
        orderSafe == OrderSafe(order)
        hits == { i \in Rows(editions) : WhereHolds(editions[i], where) }
        sql == [where |-> where, orderBy |-> sortSafe, order |-> orderSafe]
    IN  /\ UNCHANGED <<tables, uuidCount, now, schema>>
        /\ IF limit.nan \/ offset.nan \/ sortSafe \notin EditionColumns
           THEN \* LIMIT ? / OFFSET ? bound to a value that is no integer, or ORDER BY
                \* a name that is no column: the page statement throws
                resp' = [route |-> "GET /discover/editions", status |-> 500, sql |-> sql]
           ELSE \E o \in Ordered(editions, hits, sortSafe, orderSafe) :
                   resp' = [route |-> "GET /discover/editions", status |-> 200, sql |-> sql,
                            total |-> CountWhere(editions, where),
                            limit |-> limit.val, offset |-> offset.val,
                            results |-> LimitOffset([i \in DOMAIN o |-> normalizeEdition(editions[o[i]])],
                                                    limit.val, offset.val)]

----------------------------------------------------------------------------
(* GET /search *)

\* the cooldown `now - last < 60000`, in seconds
CooldownSeconds == 60

\* the step the clock advances by, in seconds
TickSeconds == CooldownSeconds \div 2

\* `new Map<string, number>()`: the map fetch() builds when it is entered
NewSearchTimestamps == [q \in {} |-> 0]

\* lastSearchTimestamps.get(query) || 0
LastSearch(timestamps, query) ==
    IF query \in DOMAIN timestamps THEN timestamps[query] ELSE 0

\* a row of works; the fallback ingest leaves author and updated_at unset
WorkRow(id, title, author, description, cover_url, updated_at, type, published_date) ==
    [id |-> id, title |-> title, author |-> author, description |-> description,
     cover_url |-> cover_url, updated_at |-> updated_at, type |-> type,
     published_date |-> published_date]

\* the CASE of the ORDER BY: 1 exact title, 2 title starting with the query, 3 otherwise
SearchRank(title, query) ==
    IF ToLowerCase(title) = query THEN 1
    ELSE IF SqlLike(ToLowerCase(title), query \o "%") THEN 2
    ELSE 3

\* the results SELECT * FROM works WHERE LOWER(title) LIKE ? ORDER BY CASE ... LIMIT ?
\* may return: the matching rows by rank, rows of equal rank in any order
LocalSearch(table, query, limit) ==
    LET hits == { i \in Rows(table) :
                    table[i].title # Null /\ SqlLike(ToLowerCase(table[i].title), "%" \o query \o "%") }
        orders == { o \in [1..Cardinality(hits) -> hits] :
                      /\ \A i, j \in DOMAIN o : i # j => o[i] # o[j]
                      /\ \A i, j \in DOMAIN o :
                            i < j => SearchRank(table[o[i]].title, query)
                                       <= SearchRank(table[o[j]].title, query) }
    IN  { LimitOffset([i \in DOMAIN o |-> table[o[i]]], limit, 0) : o \in orders }

\* what the call to the Google Books API gives: the fetch or the parse of its body
\* throws, the body has no item, or the body's first item is a volume
ProviderThrows == [kind |-> "throws"]

ProviderEmpty == [kind |-> "empty"]

Volume(id, title, author, isbn13) ==
    [kind |-> "volume", id |-> id, title |-> title, author |-> author, isbn13 |-> isbn13]

\* the answers the provider is let give
ProviderAnswers ==
    { ProviderThrows, ProviderEmpty }
    \cup { Volume("g1", "It", a, i) :
             a \in {Null, "Stephen King"}, i \in {Null, "9781501142970"} }

\* v || d
OrElse(v, d) == IF Truthy(v) THEN v ELSE d

\* INSERT OR IGNORE INTO authors (id, name): the id is fresh, so the row is ignored
\* only where name is unique and taken
InsertAuthorOrIgnore(table, id, name) ==
    IF schema.authorNameUnique /\ \E i \in Rows(table) : table[i].name = name
    THEN table
    ELSE Append(table, [id |-> id, name |-> name])

\* INSERT OR IGNORE INTO work_authors (work_id, author_id)
InsertLinkOrIgnore(table, work_id, author_id) ==
    IF \E i \in Rows(table) : table[i] = [work_id |-> work_id, author_id |-> author_id]
    THEN table
    ELSE Append(table, [work_id |-> work_id, author_id |-> author_id])

\* the row an INSERT INTO editions with the isbn column left out writes
IngestedEditionNoIsbn(id, work_id, isbn, external_id, cover_url) ==
    [EditionRow(id, EditionPayload(id, work_id, "print", "unspecified", Null, Null, NoAttrs), Null)
        EXCEPT !.external_id = external_id, !.cover_url = cover_url]

\* the row INSERT INTO editions (id, work_id, type, format, isbn, external_id, cover_url) writes
IngestedEdition(id, work_id, isbn, external_id, cover_url) ==
    [EditionRow(id, EditionPayload(id, work_id, "print", "unspecified", isbn, Null, NoAttrs), Null)
        EXCEPT !.external_id = external_id, !.cover_url = cover_url]

\* a row of external_ingests, its status 'success' whatever the outcome
IngestLogAlwaysSuccess(id, query, status, work_id, created_at) ==
    [id |-> id, query |-> query, source |-> "google_books", status |-> "success",
     work_id |-> work_id, created_at |-> created_at]

\* a row of external_ingests
IngestLog(id, query, status, work_id, created_at) ==
    [id |-> id, query |-> query, source |-> "google_books", status |-> status,
     work_id |-> work_id, created_at |-> created_at]

\* what a response reports of the volume the fallback ingested: the id of the new work,
\* the first author name and the ISBN-13 extracted
Ingested(work_id, author, isbn) == [work_id |-> work_id, author |-> author, isbn |-> isbn]

\* ... of a request that ingested nothing
NoIngest == Ingested(Null, Null, Null)

\* the steps of the handler that touch the cooldown map, the datastore or the provider
SetTimestamp == <<"lastSearchTimestamps.set">>

SelectWorks == <<"SELECT works">>

\* the call to the provider, with the kind of its answer
Fetch(ext) == <<"fetch: " \o ext.kind>>

InsertLog == <<"INSERT external_ingests">>

\* the statements of the fallback the handler starts when the last one it starts is
\* the last-th of author, work, link, edition, log, re-run local query; the edition
\* insert is skipped when the volume has no ISBN-13
FallbackSteps(hasIsbn, last) ==
    (IF last >= 1 THEN <<"INSERT authors">> ELSE <<>>)
    \o (IF last >= 2 THEN <<"INSERT works">> ELSE <<>>)
    \o (IF last >= 3 THEN <<"INSERT work_authors">> ELSE <<>>)
    \o (IF last >= 4 /\ hasIsbn THEN <<"INSERT editions">> ELSE <<>>)
    \o (IF last >= 5 THEN InsertLog ELSE <<>>)
    \o (IF last >= 6 THEN SelectWorks ELSE <<>>)

\* a response: its status, its body when 200, the calls made to the provider, what
\* was ingested, and the steps the handler started, in order
SearchResponse(status, results, externalCalls, ingested, steps) ==
    [route |-> "GET /search", status |-> status, results |-> results,
     externalCalls |-> externalCalls, ingested |-> ingested, steps |-> steps]

\* `!query || query.length < 2`, with only the missing query rejected
QueryTooShortMissingOnly(query) == ~Truthy(query)

\* `!query || query.length < 2`
QueryTooShort(query) == ~Truthy(query) \/ Len(query) < 2

\* `localResults.results.length > 0`, never found true
HasResultsNever(localResults) == FALSE

\* `localResults.results.length > 0`: the local results end the request
HasResults(localResults) == Len(localResults) > 0

\* the catch of fetch(), answering as the not_found branch does
CaughtAsNotFound(externalCalls, steps) == SearchResponse(404, <<>>, externalCalls, NoIngest, steps)

\* the catch of fetch(): whatever a step throws ends the request with 500
Caught(externalCalls, steps) == SearchResponse(500, <<>>, externalCalls, NoIngest, steps)

\* the statements committed were the ingest one batch: all five or none
CommittedAllOrNone(failing) == IF failing = 0 THEN 5 ELSE 0

\* how many statements of the ingest stay committed when the failing-th throws (0:
\* none throws): each is awaited and committed by its own .run(), so all before it
Committed(failing) == IF failing = 0 THEN 5 ELSE failing - 1

\* the statements of the fallback a datastore fault may hit: 1 the author insert,
\* 2 the work insert, 3 the link insert, 4 the edition insert, 5 the log insert; 0 is
\* no fault
NoFault == {0}

AnyFault == 0..5


\* the handler of GET /search?q=rawQ&limit=rawLimit; where it calls the provider, the
\* provider answers `ext`, and the fail-th datastore statement of the fallback throws,
\* for some fail in `faults`
Search(rawQ, rawLimit, faults) ==
    \E query \in {IF rawQ = Null THEN Null ELSE Trim(ToLowerCase(rawQ))} :
    \E limit \in {ParseInt(OrElse(rawLimit, "10"))} :
    LET r == [route |-> "GET /search", q |-> rawQ, limit |-> rawLimit, at |-> now]
    IN
    /\ req' = r
    /\ prev' = Repeated(r)
    /\ UNCHANGED <<now, schema>>
    /\ IF QueryTooShort(query)
       THEN /\ resp' = SearchResponse(400, <<>>, 0, NoIngest, <<>>)
            /\ UNCHANGED <<tables, uuidCount>>
       ELSE
       \* the map is the one this call of fetch() built; the entry set after the
       \* check goes with it when the request ends
       LET lastSearchTimestamps == NewSearchTimestamps
           last == LastSearch(lastSearchTimestamps, query)
       IN
       IF now - last < CooldownSeconds
       THEN /\ resp' = SearchResponse(429, <<>>, 0, NoIngest, <<>>)
            /\ UNCHANGED <<tables, uuidCount>>
       ELSE IF limit.nan
       THEN \* LIMIT ? bound to NaN: the local query throws
            /\ resp' = Caught(0, SetTimestamp \o SelectWorks)
            /\ UNCHANGED <<tables, uuidCount>>
       ELSE
       \E localResults \in LocalSearch(works, query, limit.val) :
       IF HasResults(localResults)
       THEN /\ resp' = SearchResponse(200, localResults, 0, NoIngest, SetTimestamp \o SelectWorks)
            /\ UNCHANGED <<tables, uuidCount>>
       ELSE
       \E ext \in ProviderAnswers :
       IF ext.kind = "throws"
       THEN /\ resp' = Caught(1, SetTimestamp \o SelectWorks \o Fetch(ext))
            /\ UNCHANGED <<tables, uuidCount>>
       ELSE IF ext.kind = "empty"
       THEN /\ Len(external_ingests) < MaxIngests
            /\ uuidCount < MaxUuid
            /\ uuidCount' = uuidCount + 1
            /\ UNCHANGED <<authors, works, work_authors, editions>>
            /\ \E fail \in faults \cap {0, 5} :
               IF fail = 5
               THEN /\ resp' = Caught(1, SetTimestamp \o SelectWorks \o Fetch(ext) \o InsertLog)
                    /\ UNCHANGED external_ingests
               ELSE /\ external_ingests' =
                         Append(external_ingests,
                                IngestLog(Uuid(uuidCount + 1), query, "not_found", Null, ToISOString(now)))
                    /\ resp' = SearchResponse(404, <<>>, 1, NoIngest,
                                                  SetTimestamp \o SelectWorks \o Fetch(ext) \o InsertLog)
       ELSE
       \E fail \in faults :
       LET authorName == OrElse(ext.author, "Unknown")
           isbn == OrElse(ext.isbn13, Null)
           \* the statements that run: all, or those before the one that throws
           failing == IF fail = 4 /\ isbn = Null THEN 0 ELSE fail
           ran == Committed(failing)
           authorId == Uuid(uuidCount + 1)
           workId == Uuid(uuidCount + 2)
           editionId == Uuid(uuidCount + 3)
           logId == Uuid(uuidCount + (IF isbn = Null THEN 3 ELSE 4))
           \* a UUID is drawn before each statement is prepared
           drawn == IF failing = 1 THEN 1
                    ELSE IF failing \in {2, 3} THEN 2
                    ELSE IF isbn = Null THEN 3
                    ELSE IF failing = 4 THEN 3
                    ELSE 4
           steps == SetTimestamp \o SelectWorks \o Fetch(ext)
                      \o FallbackSteps(isbn # Null, IF failing = 0 THEN 6 ELSE failing)
           worksAfter == IF ran >= 2
                         THEN Append(works, WorkRow(workId, ext.title, Null, Null, Null, Null,
                                                    "book", Null))
                         ELSE works
       IN
       /\ Len(external_ingests) < MaxIngests
       /\ uuidCount + drawn <= MaxUuid
       /\ uuidCount' = uuidCount + drawn
       /\ authors' = IF ran >= 1 THEN InsertAuthorOrIgnore(authors, authorId, authorName) ELSE authors
       /\ works' = worksAfter
       /\ work_authors' = IF ran >= 3 THEN InsertLinkOrIgnore(work_authors, workId, authorId)
                          ELSE work_authors
       /\ editions' = IF ran >= 4 /\ isbn # Null
                      THEN Append(editions, IngestedEdition(editionId, workId, isbn, ext.id, Null))
                      ELSE editions
       /\ external_ingests' =
             IF ran >= 5
             THEN Append(external_ingests, IngestLog(logId, query, "success", workId, ToISOString(now)))
             ELSE external_ingests
       /\ IF failing # 0
          THEN resp' = Caught(1, steps)
          ELSE \E finalResults \in LocalSearch(worksAfter, query, limit.val) :
                  resp' = SearchResponse(200, finalResults, 1, Ingested(workId, authorName, isbn),
                                         steps)

\* time passes between two requests
Tick ==
    /\ now < StartNow + MaxTicks * TickSeconds
    /\ now' = now + TickSeconds
    /\ UNCHANGED <<tables, uuidCount, schema, req, resp, prev>>

----------------------------------------------------------------------------
(* Specifications *)

Init ==
    /\ authors = <<>>
    /\ works = <<>>
    /\ work_authors = <<>>
    /\ editions = <<>>
    /\ external_ingests = <<>>
    /\ uuidCount = 0
    /\ now = StartNow
    /\ schema = [authorNameUnique |-> TRUE]
    /\ req = NoRequest
    /\ resp = NoResponse
    /\ prev = NoResponse

\* POST /editions requests, one at a time, from an empty store
NextEditions == \E p \in EditionPayloads : PostEditions(p)

SpecEditions == Init /\ [][NextEditions]_vars

\* the request bodies sent while the clock moves: with and without a caller's id,
\* with identifiers that match stored rows on isbn, on asin or on both
ClockPayloads ==
    { EditionPayload(id, "w1", "print", "hardcover", i, a, NoAttrs) :
        id \in {Null, "e1"}, i \in {"isbn1", "isbn2"}, a \in {Null, "asin1"} }
    \cup { EditionPayload(Null, "w2", "audiobook", "audible", "isbn1", "asin1", AudioAttrs) }

\* POST /editions requests, one at a time, with time passing between them
NextEditionsClock ==
    \/ \E p \in ClockPayloads : PostEditions(p)
    \/ Tick

SpecEditionsClock == Init /\ [][NextEditionsClock]_vars

\* the editions the discovery requests are put to: a print edition in English, a
\* print edition in Spanish with no other attribute, an audiobook in English
DiscoverPayloads ==
    { EditionPayload(Null, "w1", "print", "hardcover", "isbn1", Null,
        [narrator |-> Null, abridged |-> "false", page_count |-> "320", runtime |-> Null,
         release_date |-> "1965-08-01", language |-> "en", publisher |-> "tor",
         series_name |-> "dune", series_position |-> "1", explicit |-> "false",
         genres |-> "Fantasy, scifi", tags |-> "classic"]),
      EditionPayload(Null, "w1", "print", "paperback", "isbn2", Null,
        [NoAttrs EXCEPT !.language = "es"]),
      EditionPayload(Null, "w2", "audiobook", "audible", Null, "asin1",
        [AudioAttrs EXCEPT !.abridged = "true"]) }

\* the tables of up to MaxEditions + 1 of these editions, each created by one POST /editions
DiscoverTables ==
    UNION { { [ i \in 1..n |-> EditionRow(Uuid(i), ps[i], ToISOString(StartNow)) ] :
                ps \in { f \in [1..n -> DiscoverPayloads] :
                           \A i, j \in 1..n : i # j => f[i] # f[j] } } :
            n \in 0..(MaxEditions + 1) }

\* the discovery requests: every subset of the nine filters, then sort, order,
\* limit and offset in every combination, then parameters sent empty or in another case
DiscoverRequests ==
    { DiscoverParams(t, f, l, p, sn, e, a, g, tg, Null, Null, Null, Null) :
        t \in {Null, "print"}, f \in {Null, "hardcover"}, l \in {Null, "en"},
        p \in {Null, "tor"}, sn \in {Null, "dune"}, e \in {Null, "true", "false"},
        a \in {Null, "true"}, g \in {Null, "scifi"}, tg \in {Null, "mars"} }
    \cup { DiscoverParams(t, Null, Null, Null, Null, Null, Null, Null, Null, srt, ord, lim, off) :
             t \in {Null, "print"},
             srt \in {Null, "runtime", "page_count", "title", ""},
             ord \in {Null, "asc"},
             lim \in {Null, "0", "1", "-1", "abc", ""},
             off \in {Null, "1", "-1"} }
    \cup { DiscoverParams("", Null, "en", Null, Null, Null, Null, Null, Null, Null, "ASC", Null, Null),
           DiscoverParams(Null, Null, Null, Null, Null, "", Null, "FANTASY", Null, Null, Null, Null, Null),
           DiscoverParams(Null, Null, Null, Null, Null, Null, "false", Null, "", Null, Null, Null, "x"),
           DiscoverParams(Null, Null, Null, Null, Null, Null, "false", Null, Null, Null, Null, Null, Null) }

\* a store holding some editions, and a discovery request to be answered
InitDiscover ==
    /\ authors = <<>>
    /\ works = <<>>
    /\ work_authors = <<>>
    /\ editions \in DiscoverTables
    /\ external_ingests = <<>>
    /\ uuidCount = Len(editions)
    /\ now = StartNow
    /\ schema = [authorNameUnique |-> TRUE]
    /\ req \in { [route |-> "GET /discover/editions", params |-> q] : q \in DiscoverRequests }
    /\ resp = NoResponse
    /\ prev = NoResponse

\* the request is answered
DiscoverEditions ==
    /\ req.route = "GET /discover/editions"
    /\ resp = NoResponse
    /\ Discover(req.params)
    /\ UNCHANGED <<req, prev>>

NextDiscover == DiscoverEditions

SpecDiscover == InitDiscover /\ [][NextDiscover]_vars

\* the query strings GET /search is driven with; Null is a request without q
SearchQueries == {Null, "i", " It ", "it king"}

\* the limit parameters it is driven with; Null is a request without limit
SearchLimits == {Null, "0"}

\* a store with no work, whose authors table may or may not declare name unique and
\* may hold an author created by POST /authors
InitSearch ==
    /\ authors \in {<<>>, <<[id |-> "a1", name |-> "Stephen King"]>>}
    /\ works = <<>>
    /\ work_authors = <<>>
    /\ editions = <<>>
    /\ external_ingests = <<>>
    /\ uuidCount = 0
    /\ now = StartNow
    /\ schema \in { [authorNameUnique |-> u] : u \in BOOLEAN }
    /\ req = NoRequest
    /\ resp = NoResponse
    /\ prev = NoResponse

\* GET /search requests, one at a time, with time passing between them
NextSearch ==
    \/ \E q \in SearchQueries, l \in SearchLimits : Search(q, l, NoFault)
    \/ Tick

SpecSearch == InitSearch /\ [][NextSearch]_vars

\* the same, a datastore fault hitting any statement of the fallback
NextSearchFaults ==
    \/ \E q \in SearchQueries \ {Null}, l \in {Null} : Search(q, l, AnyFault)
    \/ Tick

SpecSearchFaults == InitSearch /\ [][NextSearchFaults]_vars

\* the two copies of normalizeRuntime in the repository
RuntimeVersions == {"api/v1", "part_008"}

\* the stored runtime values normalizeRuntime is applied to: counts of seconds,
\* negative counts, clock strings, free text, the empty string and NULL
RuntimeInputs ==
    { ToString(h * 3600 + m * 60 + sec) :
        h \in {0, 1, 9, 10, 99, 100}, m \in {0, 1, 23, 59}, sec \in {0, 5, 45, 59} }
    \cup { "-5", "-3600", "-5025", "+5", " 90", "007" }
    \cup { h \o ":" \o m \o ":45" : h \in {"0", "1", "01", "12", "99"}, m \in {"00", "23"} }
    \cup { "100:00:00", "1:2:3", "1:23:456", "about 1:23:45", "unknown", "90 minutes",
           "12 min", "1h 30m", "", Null }

\* the application of one copy of normalizeRuntime to record.runtime
ApplyNormalizeRuntime(version, runtime) ==
    IF version = "api/v1" THEN normalizeRuntime(runtime) ELSE normalizeRuntime_part_008(runtime)

RuntimeRequest(version, runtime) ==
    [route |-> "normalizeRuntime", version |-> version, runtime |-> runtime]

RuntimeResponse(runtime) == [route |-> "normalizeRuntime", status |-> 200, runtime |-> runtime]

\* a stored runtime value about to be normalized
InitRuntime ==
    /\ authors = <<>>
    /\ works = <<>>
    /\ work_authors = <<>>
    /\ editions = <<>>
    /\ external_ingests = <<>>
    /\ uuidCount = 0
    /\ now = StartNow
    /\ schema = [authorNameUnique |-> TRUE]
    /\ req \in { RuntimeRequest(v, r) : v \in RuntimeVersions, r \in RuntimeInputs }
    /\ resp = NoResponse
    /\ prev = NoResponse

\* the value is normalized
Normalize ==
    /\ req.route = "normalizeRuntime"
    /\ resp = NoResponse
    /\ resp' = RuntimeResponse(ApplyNormalizeRuntime(req.version, req.runtime))
    /\ UNCHANGED <<tables, uuidCount, now, schema, req, prev>>

\* the normalized value is normalized again
NormalizeAgain ==
    /\ req.route = "normalizeRuntime"
    /\ resp.route = "normalizeRuntime"
    /\ req' = RuntimeRequest(req.version, resp.runtime)
    /\ prev' = Repeated(req')
    /\ resp' = RuntimeResponse(ApplyNormalizeRuntime(req.version, resp.runtime))
    /\ UNCHANGED <<tables, uuidCount, now, schema>>

NextRuntime == Normalize \/ NormalizeAgain

SpecRuntime == InitRuntime /\ [][NextRuntime]_vars

----------------------------------------------------------------------------
(* POST /editions, two invocations of the handler in flight *)

\* the invocations of fetch that may overlap: each one suspends at its awaits
Calls == {1, 2}

\* an invocation of the POST /editions handler: the body it was sent, the await it
\* is suspended at, what its dedup SELECT returned and the timestamp it took
Call(payload, pc, existing, ts) ==
    [payload |-> payload, pc |-> pc, existing |-> existing, ts |-> ts]

\* no invocation running
Idle == Call(Null, "idle", Null, Null)

\* the request bodies the overlapping invocations are sent
OverlapPayloads ==
    { EditionPayload(Null, "w1", "print", "hardcover", i, a, NoAttrs) :
        i \in {"isbn1", "isbn2"}, a \in {Null, "asin1"} }
    \cup { EditionPayload(Null, "w1", "print", "hardcover", Null, Null, NoAttrs) }

\* INSERT INTO editions against a table that also declares isbn unique
InsertEditionUniqueIsbn(table, row) ==
    IF \E i \in Rows(table) : table[i].id = row.id \/ SqlEq(table[i].isbn, row.isbn)
    THEN [threw |-> TRUE, table |-> table]
    ELSE [threw |-> FALSE, table |-> Append(table, row)]

\* INSERT INTO editions: the id column is the primary key, no other column is unique
InsertEdition(table, row) ==
    IF \E i \in Rows(table) : table[i].id = row.id
    THEN [threw |-> TRUE, table |-> table]
    ELSE [threw |-> FALSE, table |-> Append(table, row)]

\* invocation c starts: it parses the body, validates it and takes its timestamp,
\* then suspends at the dedup SELECT
ReceiveEdition(c, p) ==
    /\ req.calls[c].pc \in {"idle", "done"}
    /\ IF MissingRequiredFields(p)
       THEN /\ req' = [req EXCEPT !.calls[c] = Call(p, "done", Null, Null)]
            /\ resp' = [resp EXCEPT !.calls[c] = [route |-> "POST /editions", status |-> 400]]
       ELSE /\ req' = [req EXCEPT !.calls[c] = Call(p, "select", Null, ToISOString(now))]
            /\ resp' = [resp EXCEPT !.calls[c] = NoResponse]
    /\ UNCHANGED <<tables, uuidCount, now, schema, prev>>

\* the dedup SELECT of invocation c runs: .first() gives one of the rows, or nothing
SelectExisting(c) ==
    /\ req.calls[c].pc = "select"
    /\ LET p == req.calls[c].payload
           existing == ExistingEditions(editions, p.isbn, p.asin)
       IN \E id \in IF existing = {} THEN {Null} ELSE {editions[i].id : i \in existing} :
             req' = [req EXCEPT !.calls[c].pc = "write", !.calls[c].existing = id]
    /\ UNCHANGED <<tables, uuidCount, now, schema, resp, prev>>

\* invocation c resumes after its SELECT: it runs the UPDATE or the INSERT its
\* `existing` selects, and responds
WriteEdition(c) ==
    /\ req.calls[c].pc = "write"
    /\ req' = [req EXCEPT !.calls[c].pc = "done"]
    /\ UNCHANGED <<authors, works, work_authors, external_ingests, now, schema, prev>>
    /\ LET p == req.calls[c].payload
           existing == req.calls[c].existing
           ts == req.calls[c].ts
       IN IF existing # Null
          THEN /\ editions' = UpdateEdition(editions, existing, p, ts)
               /\ resp' = [resp EXCEPT !.calls[c] = [route |-> "POST /editions", status |-> 200,
                                                      result |-> "updated", id |-> existing]]
               /\ UNCHANGED uuidCount
          ELSE /\ Len(editions) < MaxEditions
               /\ Truthy(p.id) \/ uuidCount < MaxUuid
               /\ LET newId == IF Truthy(p.id) THEN p.id ELSE Uuid(uuidCount + 1)
                      inserted == InsertEdition(editions, EditionRow(newId, p, ts))
                  IN /\ uuidCount' = IF Truthy(p.id) THEN uuidCount ELSE uuidCount + 1
                     /\ editions' = inserted.table
                     /\ resp' = [resp EXCEPT !.calls[c] =
                                   IF inserted.threw
                                   THEN [route |-> "POST /editions", status |-> 500]
                                   ELSE [route |-> "POST /editions", status |-> 201,
                                         result |-> "created", id |-> newId]]

\* an empty store and no invocation running
InitOverlap ==
    /\ authors = <<>>
    /\ works = <<>>
    /\ work_authors = <<>>
    /\ editions = <<>>
    /\ external_ingests = <<>>
    /\ uuidCount = 0
    /\ now = StartNow
    /\ schema = [authorNameUnique |-> TRUE]
    /\ req = [route |-> "POST /editions", calls |-> [c \in Calls |-> Idle]]
    /\ resp = [route |-> "POST /editions", calls |-> [c \in Calls |-> NoResponse]]
    /\ prev = NoResponse

\* the runtime runs one invocation until its next await, in any order
NextOverlap ==
    \/ \E c \in Calls, p \in OverlapPayloads : ReceiveEdition(c, p)
    \/ \E c \in Calls : SelectExisting(c)
    \/ \E c \in Calls : WriteEdition(c)

SpecOverlap == InitOverlap /\ [][NextOverlap]_vars

----------------------------------------------------------------------------
(* The works routes: GET /works, POST /works, PUT /works/:id, DELETE /works/:id *)

\* a CreateWorkRequest body
WorkPayload(id, title, author, description, cover_url) ==
    [id |-> id, title |-> title, author |-> author, description |-> description,
     cover_url |-> cover_url]

\* the request bodies POST /works and PUT /works/:id are driven with
WorkPayloads ==
    { WorkPayload(id, title, "Stephen King", Null, cover) :
        id \in {"w1", "w2"}, title \in {"It", "Misery"}, cover \in {Null, "c1"} }

\* the ids DELETE /works/:id and PUT /works/:id are sent, one of them never stored
WorkIds == {"w1", "w2", "w9"}

\* UPDATE works SET title = ?, author = ?, description = ?, cover_url = ? WHERE id = ?
UpdateWork(table, id, p) ==
    [ i \in Rows(table) |->
        IF table[i].id = id
        THEN [table[i] EXCEPT !.title = p.title, !.author = p.author,
                              !.description = p.description, !.cover_url = p.cover_url]
        ELSE table[i] ]

\* INSERT INTO works (id, title, author, description, cover_url): the columns not
\* named stay unset
InsertWork(table, p) ==
    Append(table, WorkRow(p.id, p.title, p.author, p.description, p.cover_url, Null, Null, Null))

\* SELECT id FROM works WHERE id = ?, which finds nothing
ExistingWorkNever(table, id) == FALSE

\* SELECT id FROM works WHERE id = ?
ExistingWork(table, id) == \E i \in Rows(table) : SqlEq(table[i].id, id)

\* a DELETE that empties the table
DeleteWhereIdAll(table, id) == <<>>

\* DELETE FROM works WHERE id = ?
DeleteWhereId(table, id) ==
    LET Keep(row) == ~SqlEq(row.id, id)
    IN  SelectSeq(table, Keep)

\* what the store does to the rows of a table that reference a deleted work: the
\* data model declares no cascade, the rows stay
OnDeleteWork(table, work_id) == table

\* the handler of POST /works: the first POST /works block of the file; the second
\* one, further down, tests the same method and path and is never reached
PostWorks(p) ==
    /\ req' = [route |-> "POST /works", payload |-> p]
    /\ prev' = Repeated([route |-> "POST /works", payload |-> p])
    /\ UNCHANGED <<authors, work_authors, editions, external_ingests, uuidCount, now, schema>>
    /\ IF ExistingWork(works, p.id)
       THEN /\ works' = UpdateWork(works, p.id, p)
            /\ resp' = [route |-> "POST /works", status |-> 200, result |-> "updated",
                        id |-> p.id]
       ELSE /\ works' = InsertWork(works, p)
            /\ resp' = [route |-> "POST /works", status |-> 201, result |-> "created",
                        id |-> p.id]

\* the handler of PUT /works/:id
PutWorks(id, p) ==
    /\ req' = [route |-> "PUT /works/:id", id |-> id, payload |-> p]
    /\ prev' = Repeated([route |-> "PUT /works/:id", id |-> id, payload |-> p])
    /\ works' = UpdateWork(works, id, p)
    /\ resp' = [route |-> "PUT /works/:id", status |-> 200]
    /\ UNCHANGED <<authors, work_authors, editions, external_ingests, uuidCount, now, schema>>

\* a DELETE /works/:id that also clears the ingest log of the work
DeleteWorkAndLog(id) ==
    /\ req' = [route |-> "DELETE /works/:id", id |-> id]
    /\ prev' = Repeated([route |-> "DELETE /works/:id", id |-> id])
    /\ works' = DeleteWhereId(works, id)
    /\ editions' = editions
    /\ work_authors' = work_authors
    /\ external_ingests' = LET Keep(row) == row.work_id # id IN SelectSeq(external_ingests, Keep)
    /\ resp' = [route |-> "DELETE /works/:id",
                status |-> IF Len(works') < Len(works) THEN 200 ELSE 404]
    /\ UNCHANGED <<authors, uuidCount, now, schema>>

\* the handler of DELETE /works/:id
DeleteWork(id) ==
    /\ req' = [route |-> "DELETE /works/:id", id |-> id]
    /\ prev' = Repeated([route |-> "DELETE /works/:id", id |-> id])
    /\ works' = DeleteWhereId(works, id)
    /\ editions' = IF Len(works') < Len(works) THEN OnDeleteWork(editions, id) ELSE editions
    /\ work_authors' = IF Len(works') < Len(works) THEN OnDeleteWork(work_authors, id)
                       ELSE work_authors
    /\ resp' = [route |-> "DELETE /works/:id",
                status |-> IF Len(works') < Len(works) THEN 200 ELSE 404]
    /\ UNCHANGED <<authors, external_ingests, uuidCount, now, schema>>

\* the handler of GET /works: SELECT * FROM works ORDER BY updated_at DESC LIMIT ? OFFSET ?
GetWorks(rawLimit, rawOffset) ==
    /\ req' = [route |-> "GET /works", limit |-> rawLimit, offset |-> rawOffset]
    /\ prev' = Repeated([route |-> "GET /works", limit |-> rawLimit, offset |-> rawOffset])
    /\ \E limit \in {ParseInt(OrElse(rawLimit, "20")).val},
          offset \in {ParseInt(OrElse(rawOffset, "0")).val} :
          \E o \in Ordered(works, Rows(works), "updated_at", "DESC") :
             resp' = [route |-> "GET /works", status |-> 200, total |-> Len(works),
                      limit |-> limit, offset |-> offset,
                      results |-> LimitOffset([i \in DOMAIN o |-> works[o[i]]], limit, offset)]
    /\ UNCHANGED <<tables, uuidCount, now, schema>>

\* no work stored yet; an edition and an author link that name the work w1
InitWorks ==
    /\ authors = <<[id |-> "a1", name |-> "Stephen King"]>>
    /\ works = <<>>
    /\ work_authors = <<[work_id |-> "w1", author_id |-> "a1"]>>
    /\ editions = <<EditionRow("e1",
                               EditionPayload("e1", "w1", "print", "hardcover", "isbn1", Null, NoAttrs),
                               ToISOString(StartNow))>>
    /\ external_ingests = <<>>
    /\ uuidCount = 0
    /\ now = StartNow
    /\ schema = [authorNameUnique |-> TRUE]
    /\ req = NoRequest
    /\ resp = NoResponse
    /\ prev = NoResponse

\* requests to the works routes, one at a time, with time passing between them
NextWorks ==
    \/ \E p \in WorkPayloads : PostWorks(p)
    \/ \E id \in WorkIds, p \in WorkPayloads : PutWorks(id, p)
    \/ \E id \in WorkIds : DeleteWork(id)
    \/ \E l \in {Null, "1"}, o \in {Null, "1"} : GetWorks(l, o)
    \/ Tick

SpecWorks == InitWorks /\ [][NextWorks]_vars

----------------------------------------------------------------------------
(* The writing routes together *)

\* the handler of POST /authors: update by id, or insert; a name already taken
\* makes the statement throw where the table declares name unique
PostAuthors(id, name) ==
    /\ req' = [route |-> "POST /authors", id |-> id, name |-> name]
    /\ prev' = Repeated([route |-> "POST /authors", id |-> id, name |-> name])
    /\ UNCHANGED <<works, work_authors, editions, external_ingests, uuidCount, now, schema>>
    /\ IF schema.authorNameUnique
          /\ \E i \in Rows(authors) : authors[i].name = name /\ authors[i].id # id
       THEN /\ resp' = [route |-> "POST /authors", status |-> 500]
            /\ UNCHANGED authors
       ELSE IF \E i \in Rows(authors) : SqlEq(authors[i].id, id)
       THEN /\ authors' = [i \in Rows(authors) |->
                              IF authors[i].id = id THEN [authors[i] EXCEPT !.name = name]
                              ELSE authors[i]]
            /\ resp' = [route |-> "POST /authors", status |-> 200, result |-> "updated", id |-> id]
       ELSE /\ authors' = Append(authors, [id |-> id, name |-> name])
            /\ resp' = [route |-> "POST /authors", status |-> 201, result |-> "created", id |-> id]

\* the handler of POST /work-authors
PostWorkAuthors(work_id, author_id) ==
    /\ req' = [route |-> "POST /work-authors", work_id |-> work_id, author_id |-> author_id]
    /\ prev' = Repeated([route |-> "POST /work-authors", work_id |-> work_id,
                         author_id |-> author_id])
    /\ work_authors' = InsertLinkOrIgnore(work_authors, work_id, author_id)
    /\ resp' = [route |-> "POST /work-authors", status |-> 201]
    /\ UNCHANGED <<authors, works, editions, external_ingests, uuidCount, now, schema>>

\* the edition bodies sent next to searches: the ISBN-13 the provider's volume
\* carries, an asin, both, an empty isbn next to the asin, and no identifier; each
\* names its id, so that the ids drawn are those of the ingest
RoutePayloads ==
    { EditionPayload("e1", "w1", "print", "hardcover", "9781501142970", Null, NoAttrs),
      EditionPayload("e2", "w1", "audiobook", "audible", Null, "asin1", NoAttrs),
      EditionPayload("e2", "w1", "audiobook", "audible", "9781501142970", "asin1", NoAttrs),
      EditionPayload("e2", "w1", "audiobook", "audible", "", "asin1", NoAttrs),
      EditionPayload("e1", "w1", "print", "hardcover", "", Null, NoAttrs) }

\* an empty store, its authors table declaring name unique or not
InitRoutes ==
    /\ authors = <<>>
    /\ works = <<>>
    /\ work_authors = <<>>
    /\ editions = <<>>
    /\ external_ingests = <<>>
    /\ uuidCount = 0
    /\ now = StartNow
    /\ schema \in { [authorNameUnique |-> u] : u \in BOOLEAN }
    /\ req = NoRequest
    /\ resp = NoResponse
    /\ prev = NoResponse

\* POST /editions and GET /search requests, one at a time
NextCatalog ==
    \/ \E p \in RoutePayloads : PostEditions(p)
    \/ Search(" It ", Null, NoFault)

SpecCatalog == InitRoutes /\ [][NextCatalog]_vars

\* no statement throws, or the INSERT INTO external_ingests does
LogFault == {0, 5}

\* requests to the routes that write, one at a time
NextRoutes ==
    \/ PostEditions(EditionPayload("e1", "w1", "print", "hardcover", "9781501142970", Null, NoAttrs))
    \/ Search(" It ", Null, LogFault)
    \/ PostWorks(WorkPayload("w1", "It", "Stephen King", Null, Null))
    \/ PutWorks("w1", WorkPayload("w1", "Misery", "Stephen King", Null, Null))
    \/ \E id \in {"w1"} \cup {works[i].id : i \in Rows(works)} : DeleteWork(id)
    \/ PostAuthors("a1", "Stephen King")
    \/ PostWorkAuthors("w1", "a1")

SpecRoutes == InitRoutes /\ [][NextRoutes]_vars

----------------------------------------------------------------------------
(* Claims about POST /editions *)

\* an identifier or field the request does not carry: missing, null or empty
Absent(v) == v \in {Null, ""}

\* the rows of a table whose column col holds the non-null value v
RowsWith(table, col, v) == { i \in Rows(table) : table[i][col] # Null /\ table[i][col] = v }

\* C1: after any sequence of POST /editions requests run one at a time from an
\* empty table, no two edition rows share a non-null isbn and no two share a
\* non-null asin.
C1_UniqueIsbnAndAsin ==
    \A i, j \in Rows(editions) :
        i # j => /\ ~(editions[i].isbn # Null /\ editions[i].isbn = editions[j].isbn)
                 /\ ~(editions[i].asin # Null /\ editions[i].asin = editions[j].asin)

\* C2: when a POST /editions answered 'created' and the same payload is posted
\* again right after it, the second call answers 'updated' with the id the first
\* call returned, the number of edition rows does not change, and exactly one
\* row carries the payload's isbn.
C2_DedupIdempotent ==
    [][ ( /\ req.route = "POST /editions" /\ resp.status = 201
          /\ req'.route = "POST /editions" /\ req'.payload = req.payload )
        => /\ resp'.status = 200
           /\ resp'.result = "updated"
           /\ resp'.id = resp.id
           /\ Len(editions') = Len(editions)
           /\ (req.payload.isbn # Null
                 => Cardinality(RowsWith(editions', "isbn", req.payload.isbn)) = 1) ]_vars

\* C2 witness: a payload with an isbn was answered 'created', posted again, and
\* answered 'updated' with the same id.
C2_Witness ==
    /\ req.route = "POST /editions"
    /\ Truthy(req.payload.isbn)
    /\ prev.status = 201
    /\ resp.status = 200
    /\ resp.id = prev.id

\* C4: a POST /editions whose payload lacks work_id, type or format, or lacks
\* both isbn and asin, answers 400 and leaves every table as it was.
C4_InvalidPayloadRejected ==
    [][ ( /\ req'.route = "POST /editions"
          /\ \/ Absent(req'.payload.work_id)
             \/ Absent(req'.payload.type)
             \/ Absent(req'.payload.format)
             \/ (Absent(req'.payload.isbn) /\ Absent(req'.payload.asin)) )
        => (resp'.status = 400 /\ tables' = tables) ]_vars

\* C4 witness: a payload without a format was answered 400 while the editions
\* table held rows.
C4_Witness ==
    /\ req.route = "POST /editions"
    /\ Absent(req.payload.format)
    /\ resp.status = 400
    /\ Len(editions) > 0

\* C5: the row POST /editions matches for update carries, before the update, a
\* present isbn equal to the payload's present isbn or a present asin equal to
\* the payload's present asin; an identifier absent from the payload (missing,
\* null or empty) matches nothing.
C5_MatchOnPresentIdentifier ==
    [][ (req'.route = "POST /editions" /\ resp'.status = 200)
        => \E i \in Rows(editions) :
              /\ editions[i].id = resp'.id
              /\ \/ (~Absent(req'.payload.isbn) /\ editions[i].isbn = req'.payload.isbn)
                 \/ (~Absent(req'.payload.asin) /\ editions[i].asin = req'.payload.asin) ]_vars

----------------------------------------------------------------------------
(* Claims about GET /discover/editions *)

\* s occurs in text, letters compared without regard to case
Contains(text, s) ==
    \E i \in 1..(Len(text) - Len(s) + 1) :
        ToLowerCase(SubSeq(text, i, i + Len(s) - 1)) = ToLowerCase(s)

\* the row satisfies every filter the request q carries: the five equality
\* filters, the two boolean filters against the stored flag, the two
\* partial-match filters; a filter not sent, or sent empty, restricts nothing
Satisfies(row, q) ==
    /\ \A col \in {"type", "format", "language", "publisher", "series_name"} :
          ~Absent(q[col]) => row[col] = q[col]
    /\ \A col \in {"explicit", "abridged"} :
          q[col] # Null => row[col] = (IF q[col] = "true" THEN "1" ELSE "0")
    /\ \A col \in {"genres", "tags"} :
          ~Absent(q[col]) => (row[col] # Null /\ Contains(row[col], q[col]))

\* the ids of the edition rows satisfying every filter of q
Expected(q) == { editions[i].id : i \in { j \in Rows(editions) : Satisfies(editions[j], q) } }

\* the ids of the records on the returned page
PageIds == { resp.results[k].id : k \in 1..Len(resp.results) }

\* the page is not cut by limit or offset
WholePage == resp.offset <= 0 /\ (resp.limit < 0 \/ resp.limit >= resp.total)

\* C8: the rows a discovery request matches are exactly the rows satisfying every
\* filter present in it at once: every returned record satisfies them all, and a
\* page not cut by limit/offset holds all such rows; an absent filter restricts nothing.
C8_FiltersConjoined ==
    (resp.route = "GET /discover/editions" /\ resp.status = 200)
    => /\ PageIds \subseteq Expected(req.params)
       /\ WholePage => PageIds = Expected(req.params)

\* C8 witness: type=print&language=en put to the three editions print/en,
\* print/es, audiobook/en returned exactly one record, the print/en edition.
C8_Witness ==
    /\ resp.route = "GET /discover/editions" /\ resp.status = 200
    /\ req.params.type = "print" /\ req.params.language = "en"
    /\ req.params.explicit = Null /\ req.params.genres = Null
    /\ Len(editions) = 3
    /\ Len(resp.results) = 1
    /\ resp.results[1].type = "print" /\ resp.results[1].language = "en"

\* C9: whatever the sort parameter, the ORDER BY field is one of release_date,
\* runtime, page_count; a value outside the list is replaced by release_date, and
\* the request is answered 200 (its limit and offset being numbers).
C9_SortAllowList ==
    resp.route = "GET /discover/editions"
    => /\ resp.sql.orderBy \in {"release_date", "runtime", "page_count"}
       /\ req.params.sort \notin {"release_date", "runtime", "page_count"}
            => /\ resp.sql.orderBy = "release_date"
               /\ ( ~ToNumber(Default(req.params.limit, "25")).nan
                    /\ ~ToNumber(Default(req.params.offset, "0")).nan ) => resp.status = 200

\* C9 witness: sort=title was answered 200, ordered by release_date.
C9_Witness ==
    /\ resp.route = "GET /discover/editions"
    /\ req.params.sort = "title"
    /\ resp.status = 200
    /\ resp.sql.orderBy = "release_date"
    /\ Len(resp.results) > 1

\* C10: the total a discovery request returns is the number of edition rows
\* satisfying its filters, whatever its limit and offset.
C10_TotalIgnoresPaging ==
    (resp.route = "GET /discover/editions" /\ resp.status = 200)
    => resp.total = Cardinality(Expected(req.params))

\* C10 witness: a filtered request with limit=1 returned one record and a total of two.
C10_Witness ==
    /\ resp.route = "GET /discover/editions" /\ resp.status = 200
    /\ req.params.type = "print" /\ req.params.limit = "1"
    /\ Len(resp.results) = 1
    /\ resp.total = 2

\* C11: whatever limit and offset a discovery request carries, the page it returns
\* holds at most as many records as the limit its response reports.
C11_PageWithinLimit ==
    (resp.route = "GET /discover/editions" /\ resp.status = 200)
    => Len(resp.results) <= resp.limit

----------------------------------------------------------------------------
(* Claims about normalizeRuntime *)

\* r is a non-negative integer count of seconds: a run of digits
IsCount(r) == r # Null /\ r # "" /\ DigitPrefixLen(r) = Len(r)

\* r is parseable as an integer: parseInt reads an integer from it
IsParseable(r) == r # Null /\ ~ParseInt(r).nan

\* r is in H:MM:SS or HH:MM:SS shape
InClockShape(r) == r # Null /\ MatchesClockAnchored(r)

\* HH:MM:SS of n seconds, each part zero-padded to two digits
ClockOf(n) ==
    PadStart2(n \div 3600) \o ":" \o PadStart2((n % 3600) \div 60) \o ":" \o PadStart2(n % 60)

\* C12: normalizeRuntime is idempotent: normalizing the value it returned for a stored
\* runtime returns that value again.
C12_NormalizeRuntimeIdempotent ==
    [][ ( /\ req.route = "normalizeRuntime"
          /\ resp.route = "normalizeRuntime"
          /\ req'.route = "normalizeRuntime"
          /\ req'.runtime = resp.runtime )
        => resp'.runtime = resp.runtime ]_vars

C14_ClockHourPadded ==
    (resp.route = "normalizeRuntime" /\ InClockShape(req.runtime))
    => resp.runtime = (IF Len(req.runtime) = 7 THEN "0" \o req.runtime ELSE req.runtime)

----------------------------------------------------------------------------
(* Claims about GET /search *)

\* this step handles a GET /search request that follows another one
NextSearchRequest ==
    /\ req.route = "GET /search"
    /\ req'.route = "GET /search"
    /\ now' = now

\* the ids of the works a response returns
ResultIds(r) == { r.results[k].id : k \in 1..Len(r.results) }

\* C3: of two GET /search requests with the identical query string handled less
\* than 60 seconds apart, the first one past validation, the second is answered
\* 429 and calls the provider no time.
C3_RepeatWithinCooldownIs429 ==
    [][ ( /\ NextSearchRequest
          /\ resp.status # 400
          /\ req'.q = req.q
          /\ req'.at - req.at < CooldownSeconds )
        => (resp'.status = 429 /\ resp'.externalCalls = 0) ]_vars

\* C6: a GET /search that found nothing locally, got a volume with an ISBN-13 from
\* the provider and had every statement succeed leaves an authors row of the first
\* author name, one new works row, a work_authors row linking that work to that
\* author, exactly one new editions row with that ISBN and that work, and one new
\* external_ingests row 'success' with that work.
C6_IngestWritesLinkedRows ==
    [][ ( /\ req'.route = "GET /search"
          /\ now' = now
          /\ resp'.ingested.work_id # Null
          /\ resp'.ingested.isbn # Null )
        => LET g == resp'.ingested
           IN  /\ \E a \in Rows(authors') :
                     /\ authors'[a].name = g.author
                     /\ \E l \in Rows(work_authors') :
                           work_authors'[l] = [work_id |-> g.work_id, author_id |-> authors'[a].id]
               /\ Len(works') = Len(works) + 1
               /\ works'[Len(works')].id = g.work_id
               /\ Len(editions') = Len(editions) + 1
               /\ SubSeq(editions', 1, Len(editions)) = editions
               /\ editions'[Len(editions')].isbn = g.isbn
               /\ editions'[Len(editions')].work_id = g.work_id
               /\ Len(external_ingests') = Len(external_ingests) + 1
               /\ SubSeq(external_ingests', 1, Len(external_ingests)) = external_ingests
               /\ external_ingests'[Len(external_ingests')].status = "success"
               /\ external_ingests'[Len(external_ingests')].work_id = g.work_id ]_vars

\* C7: a GET /search that ingested a work returns that work from its re-run local
\* query, and the next GET /search with the same query string is answered 200 with
\* that work, calls the provider no time and adds no work.
C7_IngestedWorkServedLocally ==
    [][ /\ ( /\ req'.route = "GET /search"
              /\ now' = now
              /\ resp'.ingested.work_id # Null )
            => resp'.ingested.work_id \in ResultIds(resp')
        /\ ( /\ NextSearchRequest
              /\ resp.ingested.work_id # Null
              /\ req'.q = req.q )
            => /\ resp'.status = 200
               /\ resp.ingested.work_id \in ResultIds(resp')
               /\ resp'.externalCalls = 0
               /\ works' = works ]_vars

\* this step handles a GET /search request
SearchRequest == req'.route = "GET /search" /\ now' = now

\* the handler started the step `step` while answering r
HasStep(r, step) == \E k \in 1..Len(r.steps) : r.steps[k] = step

\* the handler called the provider while answering r, at step k
IsFetch(r, k) == SubSeq(r.steps[k], 1, 6) = "fetch:"

\* the last row of a table
Last(table) == table[Len(table)]

\* C15: a GET /search that found nothing locally and got no item from the provider
\* appends exactly one external_ingests row, 'not_found' with a null work_id,
\* answers 404, and leaves authors, works, work_authors and editions as they were.
C15_NotFoundLoggedOnce ==
    [][ (SearchRequest /\ HasStep(resp', "fetch: empty"))
        => /\ resp'.status = 404
           /\ Len(external_ingests') = Len(external_ingests) + 1
           /\ SubSeq(external_ingests', 1, Len(external_ingests)) = external_ingests
           /\ Last(external_ingests').status = "not_found"
           /\ Last(external_ingests').work_id = Null
           /\ UNCHANGED <<authors, works, work_authors, editions>> ]_vars

\* C15 witness: a search for "it king" was answered 404 after the provider gave no
\* item, and its 'not_found' row is the one row of external_ingests.
C15_Witness ==
    /\ resp.route = "GET /search" /\ resp.status = 404
    /\ HasStep(resp, "fetch: empty")
    /\ req.q = "it king"
    /\ Len(external_ingests) = 1
    /\ external_ingests[1].status = "not_found" /\ external_ingests[1].query = "it king"
    /\ works = <<>>

\* the ids of the works whose lowercased title holds the query the handler made of q
TitleMatches(table, q) ==
    {table[k].id : k \in {j \in 1..Len(table) :
        table[j].title # Null
        /\ \E a \in 0..Len(table[j].title), b \in 0..Len(table[j].title) :
              /\ a + Len(Trim(q)) = b
              /\ ToLowerCase(SubSeq(table[j].title, a + 1, b)) = ToLowerCase(Trim(q))}}

\* the local query of this request returns at least one work: some title matches
\* and the limit lets a row through
LocalHit ==
    /\ HasStep(resp', "SELECT works")
    /\ TitleMatches(works, req'.q) # {}
    /\ req'.limit # "0"

\* C16: a GET /search calls the provider at most once, and only after its local
\* query ran and returned nothing; when the local query returns a work, the
\* response is 200 with those works, without a provider call or a write.
C16_ProviderOnlyAfterLocalMiss ==
    [][ SearchRequest
        => /\ \A j, k \in 1..Len(resp'.steps) :
                 (IsFetch(resp', j) /\ IsFetch(resp', k)) => j = k
           /\ \A k \in 1..Len(resp'.steps) :
                 IsFetch(resp', k)
                 => /\ \E j \in 1..(k - 1) : resp'.steps[j] = "SELECT works"
                    /\ ~LocalHit
           /\ resp'.externalCalls = Cardinality({k \in 1..Len(resp'.steps) : IsFetch(resp', k)})
           /\ LocalHit
              => /\ resp'.status = 200
                 /\ resp'.results # <<>>
                 /\ ResultIds(resp') \subseteq TitleMatches(works, req'.q)
                 /\ resp'.externalCalls = 0
                 /\ resp'.steps = <<"lastSearchTimestamps.set", "SELECT works">>
                 /\ UNCHANGED <<authors, works, work_authors, editions, external_ingests>> ]_vars

\* C16 witness: a search was answered 200 from the local works alone, after an
\* earlier request had ingested the work.
C16_Witness ==
    /\ resp.route = "GET /search" /\ resp.status = 200
    /\ resp.results # <<>>
    /\ resp.externalCalls = 0
    /\ resp.ingested = NoIngest
    /\ ~\E k \in 1..Len(resp.steps) : IsFetch(resp, k)
    /\ ResultIds(resp) \subseteq TitleMatches(works, req.q)

\* the q parameter is missing, or shorter than two characters once trimmed
MissingOrShort(q) == q = Null \/ LastNonSpace(q) - FirstNonSpace(q) + 1 < 2

\* C17: a GET /search whose query is missing or shorter than two characters after
\* trimming is answered 400 before any other step: no datastore read or write,
\* no provider call, no cooldown timestamp.
C17_ShortQueryRejectedFirst ==
    [][ (SearchRequest /\ MissingOrShort(req'.q))
        => /\ resp'.status = 400
           /\ resp'.steps = <<>>
           /\ resp'.externalCalls = 0
           /\ UNCHANGED <<authors, works, work_authors, editions, external_ingests>> ]_vars

\* C17 witness: the one-character query "i" was answered 400 with no step started,
\* while a work it would have matched is stored.
C17_Witness ==
    /\ resp.route = "GET /search" /\ resp.status = 400
    /\ req.q = "i"
    /\ resp.steps = <<>>
    /\ TitleMatches(works, "i") # {}

\* C18: a GET /search whose provider call fails (the request throws, or the body
\* cannot be parsed) ends as an empty provider result does: status 404, not 500.
C18_ProviderFailureIs404 ==
    [][ (SearchRequest /\ HasStep(resp', "fetch: throws"))
        => /\ resp'.status = 404
           /\ resp'.status # 500 ]_vars

\* C19: a GET /search that called the provider has appended exactly one
\* external_ingests row, 'success' or 'not_found', by the time it responds,
\* also when a datastore statement of the ingest sequence fails.
C19_EveryProviderCallLogged ==
    [][ (SearchRequest /\ \E k \in 1..Len(resp'.steps) : IsFetch(resp', k))
        => /\ Len(external_ingests') = Len(external_ingests) + 1
           /\ SubSeq(external_ingests', 1, Len(external_ingests)) = external_ingests
           /\ Last(external_ingests').status \in {"success", "not_found"} ]_vars

----------------------------------------------------------------------------
(* Claims about overlapping POST /editions *)

\* invocations c and d carry the same isbn, and the dedup SELECT of each ran
\* before the INSERT of the other: each observed no match, c is about to write
BothObservedNoMatch(c, d) ==
    /\ c # d
    /\ req.calls[c].pc = "write"
    /\ req.calls[d].pc \in {"write", "done"}
    /\ req.calls[c].existing = Null
    /\ req.calls[d].existing = Null
    /\ Truthy(req.calls[c].payload.isbn)
    /\ req.calls[c].payload.isbn = req.calls[d].payload.isbn
    /\ req.calls[d].pc = "done" => resp.calls[d].status = 201

\* C20: of two overlapping POST /editions with the same isbn whose dedup lookups
\* both ran before either insert, each observed no match and each inserts a row:
\* the invocation that writes second still answers 201 and appends a row with
\* that isbn next to the other's.
C20_OverlappingBothInsert ==
    [][ \A c \in Calls, d \in Calls :
          (BothObservedNoMatch(c, d) /\ req'.calls[c].pc = "done")
          => /\ resp'.calls[c].status = 201
             /\ Len(editions') = Len(editions) + 1
             /\ SubSeq(editions', 1, Len(editions)) = editions
             /\ Last(editions').isbn = req.calls[c].payload.isbn
             /\ Last(editions').id = resp'.calls[c].id ]_vars

\* C20 witness: both invocations were sent isbn1, both looked up before either
\* inserted, both answered 201, and the store holds two rows with isbn1.
C20_Witness ==
    /\ req.route = "POST /editions" /\ "calls" \in DOMAIN req
    /\ \A c \in Calls :
          /\ req.calls[c].pc = "done"
          /\ req.calls[c].existing = Null
          /\ req.calls[c].payload.isbn = "isbn1"
          /\ resp.calls[c].status = 201
    /\ resp.calls[1].id # resp.calls[2].id
    /\ Len(editions) = 2
    /\ editions[1].isbn = "isbn1" /\ editions[2].isbn = "isbn1"
    /\ editions[1].id # editions[2].id

----------------------------------------------------------------------------
(* Claims about the update branch of POST /editions *)

\* the descriptive attributes a payload carries as they are, flags apart
PlainAttrs ==
    {"narrator", "page_count", "runtime", "release_date", "language", "publisher",
     "series_name", "series_position", "genres", "tags"}

\* row carries every mutable field of payload p and the timestamp ts
CarriesPayload(row, p, ts) ==
    /\ row.work_id = p.work_id /\ row.type = p.type /\ row.format = p.format
    /\ row.isbn = p.isbn /\ row.asin = p.asin
    /\ \A a \in PlainAttrs : row[a] = p.attrs[a]
    /\ row.abridged = BindFlag(p.attrs.abridged)
    /\ row.explicit = BindFlag(p.attrs.explicit)
    /\ row.updated_at = ts

\* C21: a POST /editions that finds a matching row answers 'updated' with that
\* row's id, sets every mutable field of the row to the payload's values and
\* refreshes updated_at; the row keeps its id whatever id the payload carries,
\* the number of rows is unchanged and every other row is unchanged.
C21_UpdateRewritesMatchedRowOnly ==
    [][ (req'.route = "POST /editions" /\ now' = now /\ ~MissingRequiredFields(req'.payload)
         /\ \E i \in Rows(editions) : DedupWhere(editions[i], req'.payload.isbn, req'.payload.asin))
        => /\ resp'.status = 200 /\ resp'.result = "updated"
           /\ Len(editions') = Len(editions)
           /\ \E i \in Rows(editions) :
                /\ DedupWhere(editions[i], req'.payload.isbn, req'.payload.asin)
                /\ resp'.id = editions[i].id
                /\ editions'[i].id = editions[i].id
                /\ CarriesPayload(editions'[i], req'.payload, ToISOString(now))
                /\ \A j \in Rows(editions) \ {i} : editions'[j] = editions[j] ]_vars

\* C21 witness: a payload carrying the id "e1" matched a stored row with another
\* id; that row was rewritten with the payload's fields and the time of this
\* request under its own id, next to a second row written earlier.
C21_Witness ==
    /\ resp.route = "POST /editions" /\ resp.status = 200 /\ resp.result = "updated"
    /\ req.payload.id = "e1" /\ resp.id # "e1"
    /\ Len(editions) = 2
    /\ \E i \in Rows(editions) :
          /\ editions[i].id = resp.id
          /\ CarriesPayload(editions[i], req.payload, ToISOString(now))
    /\ \A i \in Rows(editions) : editions[i].id # "e1"
    /\ now > StartNow
    /\ \E j \in Rows(editions) : editions[j].updated_at = ToISOString(StartNow)

----------------------------------------------------------------------------
(* Claims about the works routes *)

\* this step handles a request to `route`
RequestTo(route) == req'.route = route /\ now' = now

\* the positions of the works rows with the id
WorksWith(table, id) == { i \in Rows(table) : table[i].id = id }

\* C23: POST /works keeps at most one works row per identifier: a submission of an
\* id not stored answers 'created' and adds one row; a submission of a stored id
\* answers 'updated' with that id, replaces title, author, description and
\* cover_url of that row in place and adds no row.
C23_WorksUpsertById ==
    [][ RequestTo("POST /works")
        => LET p == req'.payload
           IN /\ resp'.id = p.id
              /\ \A id \in {works'[i].id : i \in Rows(works')} :
                    Cardinality(WorksWith(works', id)) = 1
              /\ IF WorksWith(works, p.id) = {}
                 THEN /\ resp'.status = 201 /\ resp'.result = "created"
                      /\ Len(works') = Len(works) + 1
                      /\ SubSeq(works', 1, Len(works)) = works
                      /\ Last(works').id = p.id
                 ELSE /\ resp'.status = 200 /\ resp'.result = "updated"
                      /\ Len(works') = Len(works)
                      /\ \A i \in Rows(works) :
                           IF works[i].id = p.id
                           THEN /\ works'[i].id = p.id
                                /\ works'[i].title = p.title
                                /\ works'[i].author = p.author
                                /\ works'[i].description = p.description
                                /\ works'[i].cover_url = p.cover_url
                           ELSE works'[i] = works[i] ]_vars

\* C23 witness: w1 was submitted again with another title and cover while w2 is
\* stored too; the answer is 'updated' and the one w1 row carries the new values.
C23_Witness ==
    /\ resp.route = "POST /works" /\ resp.status = 200 /\ resp.result = "updated"
    /\ resp.id = "w1"
    /\ Len(works) = 2
    /\ \E i \in Rows(works) :
          /\ works[i].id = "w1"
          /\ works[i].title = "Misery" /\ works[i].cover_url = "c1"
          /\ works[i].title = req.payload.title /\ works[i].cover_url = req.payload.cover_url
    /\ \E i \in Rows(works) : works[i].id = "w2" /\ works[i].title = "It"

C30_UpsertRefreshesUpdatedAt ==
    [][ /\ RequestTo("POST /works")
           => \A i \in WorksWith(works', req'.payload.id) :
                 works'[i].updated_at = ToISOString(now)
        /\ (RequestTo("GET /works") /\ req.route = "POST /works"
            /\ req'.offset = Null /\ works # <<>>)
           => resp'.results[1].id = req.payload.id ]_vars

----------------------------------------------------------------------------
(* Claims about the fallback ingest of GET /search *)

\* the handler ran the statement `step` to its end while answering r
Completed(r, step) == HasStep(r, step) /\ Last(r.steps) # step

\* table grew by exactly one row
GrewByOne(before, after) ==
    Len(after) = Len(before) + 1 /\ SubSeq(after, 1, Len(before)) = before

\* C25: the fallback ingest is not atomic: when a statement of the sequence author
\* insert, work insert, link insert, edition insert, log insert fails, the answer
\* is 500, what the statements before it wrote stays, and no external_ingests row
\* is written for the attempt.
C25_IngestNotAtomic ==
    [][ (SearchRequest /\ HasStep(resp', "fetch: volume") /\ Last(resp'.steps) # "SELECT works")
        => /\ resp'.status = 500
           /\ external_ingests' = external_ingests
           /\ IF Completed(resp', "INSERT authors")
              THEN GrewByOne(authors, authors') \/ (schema.authorNameUnique /\ authors' = authors)
              ELSE authors' = authors
           /\ IF Completed(resp', "INSERT works")
              THEN GrewByOne(works, works')
              ELSE works' = works
           /\ IF Completed(resp', "INSERT work_authors")
              THEN GrewByOne(work_authors, work_authors')
                   /\ Last(work_authors').work_id = Last(works').id
              ELSE work_authors' = work_authors
           /\ IF Completed(resp', "INSERT editions")
              THEN GrewByOne(editions, editions')
                   /\ Last(editions').work_id = Last(works').id
              ELSE editions' = editions ]_vars

\* C25 witness: the log insert of an ingest threw; the answer was 500, the author,
\* the work, the link and the edition are stored and external_ingests is empty.
C25_Witness ==
    /\ resp.route = "GET /search" /\ resp.status = 500
    /\ HasStep(resp, "fetch: volume")
    /\ Last(resp.steps) = "INSERT external_ingests"
    /\ Completed(resp, "INSERT editions")
    /\ Len(works) = 1 /\ Len(editions) = 1 /\ Len(work_authors) = 1
    /\ editions[1].work_id = works[1].id
    /\ authors # <<>>
    /\ external_ingests = <<>>

\* C26: after a successful fallback ingest, the work_authors row written for the
\* new work references an id that is in authors under the extracted first author
\* name, whether the author was inserted or the insert was ignored.
C26_LinkReferencesStoredAuthor ==
    [][ (SearchRequest /\ resp'.status = 200 /\ resp'.ingested.work_id # Null)
        => /\ \E k \in Rows(work_authors') : work_authors'[k].work_id = resp'.ingested.work_id
           /\ \A k \in Rows(work_authors') :
                 work_authors'[k].work_id = resp'.ingested.work_id
                 => \E a \in Rows(authors') :
                       /\ authors'[a].id = work_authors'[k].author_id
                       /\ authors'[a].name = resp'.ingested.author ]_vars

----------------------------------------------------------------------------
(* Claims about the tables across routes *)

IsbnUnique(table) ==
    \A i, j \in Rows(table) :
        (i # j /\ table[i].isbn # Null) => table[i].isbn # table[j].isbn

\* C27: the fallback ingest of GET /search keeps the isbn uniqueness of editions:
\* a search handled in a state where no two edition rows share a non-null isbn
\* leaves such a state, also when the provider returns an ISBN a stored edition
\* carries.
C27_IngestKeepsIsbnUnique ==
    [][ (SearchRequest /\ IsbnUnique(editions)) => IsbnUnique(editions') ]_vars

\* C28: every edition row has at least one of isbn and asin present, whether
\* POST /editions inserted it, POST /editions updated it after matching on one
\* identifier, or the fallback ingest of GET /search wrote it.
C28_EditionHasIdentifier ==
    \A i \in Rows(editions) : ~Absent(editions[i].isbn) \/ ~Absent(editions[i].asin)

\* C28 witness: POST /editions matched a stored row on its asin and rewrote it with
\* an empty isbn, next to an edition the fallback ingest wrote with an isbn only.
C28_Witness ==
    /\ resp.route = "POST /editions" /\ resp.status = 200 /\ resp.result = "updated"
    /\ req.payload.isbn = "" /\ req.payload.asin = "asin1"
    /\ \E i \in Rows(editions) :
          /\ editions[i].id = resp.id
          /\ editions[i].isbn = "" /\ editions[i].asin = "asin1"
    /\ \E i \in Rows(editions) :
          /\ editions[i].external_id # Null
          /\ editions[i].isbn = "9781501142970" /\ editions[i].asin = Null

----------------------------------------------------------------------------
(* Claims about the boolean filters of GET /discover/editions *)

\* C29: the boolean filters agree with the normalized output: of the rows meeting
\* the other filters of a request, one is returned by abridged=false (explicit=false)
\* exactly when normalizeEdition reports the flag false for it, rows whose stored
\* flag is null included, and by abridged=true (explicit=true) exactly when it
\* reports true.
C29_FlagFilterAgreesWithNormalized ==
    (resp.route = "GET /discover/editions" /\ resp.status = 200 /\ WholePage)
    => \A flag \in {"abridged", "explicit"} :
          req.params[flag] \in {"true", "false"}
          => \A i \in Rows(editions) :
                Satisfies(editions[i], [req.params EXCEPT ![flag] = Null])
                => ( editions[i].id \in PageIds
                     <=> normalizeEdition(editions[i])[flag] = req.params[flag] )

====
